---- MODULE Spec2Model ----
(***************************************************************************)
(* Theme switching with view transitions (next-darkmode).                  *)
(*                                                                         *)
(* The repository holds three revisions of the hook useDarkMode:           *)
(*   "handlers"  src/src/index.ts 1-289   (handleCircularReveal, ...)       *)
(*   "inline"    src/src/index.ts 291-514 (the same, written in the switch) *)
(*   "legacy"    src/unnamed/part_000     (config object, no cleanup)       *)
(* A page bundles one revision, so the revision is fixed in a behaviour.    *)
(*                                                                         *)
(* JavaScript runs one task at a time: the part of applyTheme up to its     *)
(* first await is one step, and so is every resumption after an await.      *)
(* The theme store (next-themes) and the platform's view transitions are    *)
(* the environment: the platform runs capture callbacks in the order the    *)
(* transitions were started and settles `ready` and `finished` when and     *)
(* how it likes.                                                            *)
(***************************************************************************)
EXTENDS Integers, Sequences, FiniteSets, TLC

\* Number of applyTheme calls issued in one behaviour.
MaxCalls == 2

\* Number of direct calls of the style utilities in one behaviour.
MaxOps == 3

VARIABLES
  ver,         \* the revision of the hook the page bundles
  hasWindow,   \* typeof window !== 'undefined': there is a page
  hasStartViewTransition,  \* document.startViewTransition is defined
  theme,       \* useTheme().theme: the store's raw theme
  head,        \* document.head: the style elements, in document order
  calls,       \* the applyTheme calls issued so far, in the order issued
  ops,         \* the calls of the style utilities made directly, each with
               \* the document it found
  geo          \* the page's geometry, the circular reveal's configuration
               \* and the animate call the last circular reveal made

vars == <<ver, hasWindow, hasStartViewTransition, theme, head, calls, ops, geo>>

DarkModeTheme == {"dark", "light", "system"}

Versions == {"handlers", "inline", "legacy"}

STYLE_IDS ==
  [DISABLE_DEFAULT |-> "__next-easy-dark-mode-disable-view-transition-default-styles__",
   ADD_CUSTOM      |-> "__next-easy-dark-mode-add-view-transition-custom-styles__"]

\* The text of the disabling style block: the legacy revision sets neither
\* `isolation` nor `display`.
DisableCss(v) ==
  IF v = "legacy" THEN "old/new(root){animation:none;mix-blend-mode:normal}"
  ELSE "image-pair(root){isolation:auto} old/new(root){animation:none;mix-blend-mode:normal;display:block}"

----------------------------------------------------------------------------
(* Style management utilities, on a document head h.                       *)

\* document.getElementById(id): the position of the first element with that
\* id, 0 for null.
getElementById(h, id) ==
  IF \E i \in 1..Len(h) : h[i].id = id
  THEN CHOOSE i \in 1..Len(h) : h[i].id = id /\ \A j \in 1..(i - 1) : h[j].id # id
  ELSE 0

RemoveAt(s, i) == SubSeq(s, 1, i - 1) \o SubSeq(s, i + 1, Len(s))

\* Mutant: a style element is appended whether or not one has the id.
addDocumentStylesAlways(h, id, textContent) == Append(h, [id |-> id, text |-> textContent])

\* Mutant: the text of an element that has the id is replaced.
addDocumentStylesReplace(h, id, textContent) ==
  IF getElementById(h, id) = 0
  THEN Append(h, [id |-> id, text |-> textContent])
  ELSE [h EXCEPT ![getElementById(h, id)].text = textContent]

addDocumentStyles(h, id, textContent) ==
  IF getElementById(h, id) = 0
  THEN Append(h, [id |-> id, text |-> textContent])
  ELSE h

\* Mutant: the last element of the document is removed.
removeDocumentStylesLast(h, id) ==
  IF getElementById(h, id) = 0 THEN h ELSE RemoveAt(h, Len(h))

removeDocumentStyles(h, id) ==
  IF getElementById(h, id) = 0 THEN h ELSE RemoveAt(h, getElementById(h, id))

disableDefaultStyles(h) == addDocumentStyles(h, STYLE_IDS.DISABLE_DEFAULT, DisableCss(ver))

resetDefaultStyles(h) == removeDocumentStyles(h, STYLE_IDS.DISABLE_DEFAULT)

HasStyle(h, id) == getElementById(h, id) # 0

\* The number of style elements a step from h to h2 created or removed.
Created(h, h2) == IF Len(h2) > Len(h) THEN Len(h2) - Len(h) ELSE 0
Removed(h, h2) == IF Len(h) > Len(h2) THEN Len(h) - Len(h2) ELSE 0

----------------------------------------------------------------------------
(* The hook's argument and what each revision makes of it.                 *)

\* The tags callers write in `type`.
Tags == {"none", "fade", "default", "circular-reveal", "custom"}

CssTexts == {"", "css1"}

\* The shapes of an AnimateConfig (`old`, `new`): absent, with a bare number
\* as options, with an options bag.
AnimPairs == {<<"absent", "absent">>, <<"number", "bag">>}

\* The argument of useDarkMode: nothing, a transition object passed
\* directly, or an object holding it under `transition`.  `css`, `old` and
\* `new` are fields of the custom transition of src/src/index.ts.
Args ==
  {[form |-> "absent", type |-> "undefined", css |-> "", old |-> "absent", new |-> "absent"]}
  \cup {[form |-> f, type |-> t, css |-> "", old |-> "absent", new |-> "absent"] :
          f \in {"direct", "nested"}, t \in Tags}
  \cup {[form |-> "direct", type |-> "custom", css |-> c, old |-> a[1], new |-> a[2]] :
          c \in CssTexts, a \in AnimPairs}

\* The binding `transition` of the hook.  index.ts takes the argument itself
\* as the transition (default { type: 'default' }); the legacy revision
\* destructures config.transition (default { type: 'fade' }).
Transition(v, arg) ==
  IF v = "legacy"
  THEN IF arg.form = "nested"
       THEN [type |-> arg.type, css |-> "", old |-> "absent", new |-> "absent"]
       ELSE [type |-> "fade", css |-> "", old |-> "absent", new |-> "absent"]
  ELSE CASE arg.form = "absent" ->
              [type |-> "default", css |-> "", old |-> "absent", new |-> "absent"]
         [] arg.form = "direct" ->
              [type |-> arg.type, css |-> arg.css, old |-> arg.old, new |-> arg.new]
         [] arg.form = "nested" ->
              [type |-> "undefined", css |-> "", old |-> "absent", new |-> "absent"]

\* The case of `switch (transition.type)` that runs; the fade case is
\* labelled 'default' in index.ts and 'fade' in the legacy revision.
SwitchCase(v, type) ==
  CASE type = "none" -> "none"
    [] type = "circular-reveal" -> "circular-reveal"
    [] type = "custom" -> "custom"
    [] type = "default" /\ v # "legacy" -> "fade"
    [] type = "fade" /\ v = "legacy" -> "fade"
    [] OTHER -> "unmatched"

----------------------------------------------------------------------------
(* The theme store.                                                        *)

\* The values useTheme().resolvedTheme can have: 'system' resolves to the OS
\* colour scheme, which is the environment's.
ResolvedThemes == IF theme = "system" THEN {"dark", "light"} ELSE {theme}

\* Mutant: the guard compares the resolved theme.
NoOpGuardResolved(newTheme) == newTheme \in ResolvedThemes

\* if (theme === newTheme) return
NoOpGuard(newTheme) == theme = newTheme

\* Mutant: the guard tests for the page only, not for the capability.
WindowAbsent == ~hasWindow

\* typeof window === 'undefined' || !document.startViewTransition
CapabilityAbsent == ~hasWindow \/ ~hasStartViewTransition

----------------------------------------------------------------------------
(* Calls.                                                                  *)

\* A call is settled when it has returned and its transition, if it started
\* one, has finished.
Settled(c) == c.pc = "done" /\ (c.started => c.finished # "pending")

Quiet == \A i \in 1..Len(calls) : Settled(calls[i])

\* A call issued while others are unsettled overlaps them.
Overlap(cs) ==
  [i \in 1..Len(cs) |-> IF Settled(cs[i]) THEN cs[i] ELSE [cs[i] EXCEPT !.alone = FALSE]]

\* The record of a call that returns at once having done nothing.
NewCall(via, dark, newTheme, arg) ==
  [via |-> via, newTheme |-> newTheme, arg |-> arg,
   isDarkMode |-> dark,          \* toggle: resolvedTheme === 'dark' as it read it
   same |-> (theme = newTheme),  \* the store's raw theme at the call
   pc |-> "done",                \* "awaitReady", "awaitFinished", "done"
   result |-> "fulfilled",       \* the promise applyTheme returned
   wrote |-> <<>>,               \* the themes this call wrote to the store
   created |-> 0,                \* style elements this call created
   removed |-> 0,                \* style elements this call removed
   animates |-> <<>>,            \* the pseudo-elements of its animate calls
   steps |-> <<>>,               \* the calls it made on store, document and page
   threw |-> FALSE,              \* one of its animate calls threw
   started |-> FALSE,            \* it called document.startViewTransition
   cbDone |-> FALSE,             \* the platform ran its capture callback
   ready |-> "pending",          \* viewTransition.ready
   finished |-> "pending",       \* viewTransition.finished
   styleAtReturn |-> HasStyle(head, STYLE_IDS.DISABLE_DEFAULT),
   customAtReturn |-> HasStyle(head, STYLE_IDS.ADD_CUSTOM),
   alone |-> Quiet,              \* no other call was or came in flight
   head0 |-> IF Quiet THEN head ELSE <<>>]  \* the document at a call made alone

----------------------------------------------------------------------------
(* The circular reveal's geometry and timing.  The page gives lengths in    *)
(* whole pixels; a centre is kept in half pixels (twice its value in        *)
(* pixels), so that left + width / 2 is exact, and the radius by its        *)
(* square, so that Math.hypot needs no root.                                *)

\* An optional value is a sequence of at most one element.
Optional(S) == {<<>>} \cup {<<v>> : v \in S}

\* window.innerWidth, window.innerHeight
Widths == {360, 800}
Heights == {600, 640}

\* getBoundingClientRect() of the element a ref points at.
Rects == [left : {0, 100}, top : {40}, width : {0, 25}, height : {30}]

\* CircularRevealCenter: { ref } | { x, y }; "both" is an object with all
\* three properties.  x and y are read only when the kind has them.
Centers ==
  [kind : {"ref"}, x : {0}, y : {0}]
    \cup [kind : {"xy", "both"}, x : {0, 100, 900}, y : {0, 100}]

Durations == Optional({0, 300})
Easings == Optional({"", "linear"})

DEFAULT_DURATION == 500
DEFAULT_EASING == "ease-in-out"

Max(a, b) == IF a >= b THEN a ELSE b
Min(a, b) == IF a <= b THEN a ELSE b

\* Mutant: a resolver that prefers explicit coordinates to the element.
getCircularRevealCenterXYFirst(config, current, innerWidth, innerHeight) ==
  IF config.kind \in {"xy", "both"}
  THEN [x |-> 2 * config.x, y |-> 2 * config.y]
  ELSE IF current # <<>>
  THEN [x |-> 2 * current[1].left + current[1].width,
        y |-> 2 * current[1].top + current[1].height]
  ELSE [x |-> innerWidth, y |-> innerHeight]

\* The centre, in half pixels: the centre of config.ref.current's bounding
\* box, else (config.x, config.y), else the centre of the viewport.
getCircularRevealCenter(config, current, innerWidth, innerHeight) ==
  IF config.kind \in {"ref", "both"} /\ current # <<>>
  THEN [x |-> 2 * current[1].left + current[1].width,
        y |-> 2 * current[1].top + current[1].height]
  ELSE IF config.kind \in {"xy", "both"}
  THEN [x |-> 2 * config.x, y |-> 2 * config.y]
  ELSE [x |-> innerWidth, y |-> innerHeight]

\* Mutant: the radius to the nearest corner.
minRadiusSq(center, innerWidth, innerHeight) ==
  Min(center.x, 2 * innerWidth - center.x) * Min(center.x, 2 * innerWidth - center.x)
    + Min(center.y, 2 * innerHeight - center.y) * Min(center.y, 2 * innerHeight - center.y)

\* Math.hypot(Math.max(centerX, innerWidth - centerX),
\*            Math.max(centerY, innerHeight - centerY)), squared, in half pixels.
maxRadiusSq(center, innerWidth, innerHeight) ==
  Max(center.x, 2 * innerWidth - center.x) * Max(center.x, 2 * innerWidth - center.x)
    + Max(center.y, 2 * innerHeight - center.y) * Max(center.y, 2 * innerHeight - center.y)

\* index.ts: config.duration || 500 (0 is falsy); legacy: duration = 500, the
\* default of a destructured property (undefined only).
Duration(v, duration) ==
  IF duration = <<>> THEN DEFAULT_DURATION
  ELSE IF v # "legacy" /\ duration[1] = 0 THEN DEFAULT_DURATION
  ELSE duration[1]

\* index.ts: config.easing || 'ease-in-out' ('' is falsy); legacy: easing =
\* 'ease-in-out', the default of a destructured property.
Easing(v, easing) ==
  IF easing = <<>> THEN DEFAULT_EASING
  ELSE IF v # "legacy" /\ easing[1] = "" THEN DEFAULT_EASING
  ELSE easing[1]

\* The page when it has loaded: nothing mounted, nothing animated.
GeoInit ==
  [innerWidth |-> 800, innerHeight |-> 600, current |-> <<>>,
   center |-> [kind |-> "xy", x |-> 0, y |-> 0],
   duration |-> <<>>, easing |-> <<>>, out |-> <<>>]

TypeOK ==
  /\ ver \in Versions
  /\ hasWindow \in BOOLEAN
  /\ hasStartViewTransition \in BOOLEAN
  /\ hasStartViewTransition => hasWindow
  /\ theme \in DarkModeTheme
  /\ geo.innerWidth \in Widths /\ geo.innerHeight \in Heights
  /\ geo.current \in Optional(Rects) /\ geo.center \in Centers
  /\ geo.duration \in Durations /\ geo.easing \in Easings
  /\ Len(geo.out) <= 1
  /\ Len(ops) <= MaxOps
  /\ Len(calls) <= MaxCalls

Init ==
  /\ ver \in Versions
  /\ hasWindow \in BOOLEAN
  /\ hasStartViewTransition \in BOOLEAN
  /\ hasStartViewTransition => hasWindow
  /\ theme \in DarkModeTheme
  /\ head = <<>>
  /\ calls = <<>>
  /\ ops = <<>>
  /\ geo = GeoInit

----------------------------------------------------------------------------
(* applyTheme up to its first await.  Each operator gives the store, the     *)
(* document and the call's record after the branch has run.                  *)

\* Nothing happens: the no-op guard, or a type no case of the switch matches.
Return(c) == [theme |-> theme, head |-> head, call |-> c]

\* setTheme(newTheme); return
DirectWrite(c) ==
  [theme |-> c.newTheme, head |-> head,
   call |-> [c EXCEPT !.wrote = Append(@, c.newTheme),
                      !.steps = Append(@, "setTheme")]]

\* Mutant: the fade case writes the store itself and in the callback too.
FadeCaseWritesTwice(c) ==
  [theme |-> c.newTheme, head |-> resetDefaultStyles(head),
   call |-> [c EXCEPT !.started = TRUE, !.wrote = Append(@, c.newTheme),
                      !.steps = @ \o <<"resetDefaultStyles", "setTheme", "startViewTransition">>,
                      !.removed = @ + Removed(head, resetDefaultStyles(head))]]

\* Mutant: the fade case starts the transition and leaves style A alone.
FadeCaseNoReset(c) ==
  [theme |-> theme, head |-> head,
   call |-> [c EXCEPT !.started = TRUE, !.steps = @ \o <<"startViewTransition">>]]

\* case 'default' / 'fade': resetDefaultStyles(); startViewTransition(...); return
FadeCase(c) ==
  [theme |-> theme, head |-> resetDefaultStyles(head),
   call |-> [c EXCEPT !.started = TRUE,
                      !.steps = @ \o <<"resetDefaultStyles", "startViewTransition">>,
                      !.removed = @ + Removed(head, resetDefaultStyles(head))]]

\* Mutant: 'none' falls through to the fade case.
NoneCaseFallsThrough(c) == FadeCase(c)

\* case 'none': setTheme(newTheme); return
NoneCase(c) == DirectWrite(c)

\* Mutant: the circular reveal starts the transition, then injects style A.
CircularRevealStartsFirst(c) ==
  [theme |-> theme, head |-> disableDefaultStyles(head),
   call |-> [c EXCEPT !.started = TRUE, !.pc = "awaitReady", !.result = "pending",
                      !.steps = @ \o <<"startViewTransition", "disableDefaultStyles">>,
                      !.created = @ + Created(head, disableDefaultStyles(head))]]

\* disableDefaultStyles(); startViewTransition(...); await ...ready
CircularRevealStart(c) ==
  [theme |-> theme, head |-> disableDefaultStyles(head),
   call |-> [c EXCEPT !.started = TRUE, !.pc = "awaitReady", !.result = "pending",
                      !.steps = @ \o <<"disableDefaultStyles", "startViewTransition">>,
                      !.created = @ + Created(head, disableDefaultStyles(head))]]

\* disableDefaultStyles(); if (config.css) addDocumentStyles(ADD_CUSTOM, config.css);
\* startViewTransition(...); await ...ready
CustomStart(c, t) ==
  LET h1 == disableDefaultStyles(head)
      h2 == IF t.css # "" THEN addDocumentStyles(h1, STYLE_IDS.ADD_CUSTOM, t.css) ELSE h1
  IN [theme |-> theme, head |-> h2,
      call |-> [c EXCEPT !.started = TRUE, !.pc = "awaitReady", !.result = "pending",
                         !.steps = @ \o <<"disableDefaultStyles">>
                                     \o (IF t.css # "" THEN <<"addDocumentStyles">> ELSE <<>>)
                                     \o <<"startViewTransition">>,
                         !.created = @ + Created(head, h2)]]

\* switch (transition.type)
Dispatch(c, t) ==
  CASE SwitchCase(ver, t.type) = "none" -> NoneCase(c)
    [] SwitchCase(ver, t.type) = "fade" -> FadeCase(c)
    [] SwitchCase(ver, t.type) = "circular-reveal" -> CircularRevealStart(c)
    [] SwitchCase(ver, t.type) = "custom" -> CustomStart(c, t)
    [] OTHER -> Return(c)

applyTheme(via, dark, newTheme, arg) ==
  LET c == NewCall(via, dark, newTheme, arg)
      e == IF NoOpGuard(newTheme) THEN Return(c)
           ELSE IF CapabilityAbsent THEN DirectWrite(c)
           ELSE Dispatch(c, Transition(ver, arg))
  IN /\ Len(calls) < MaxCalls
     /\ theme' = e.theme
     /\ head' = e.head
     /\ calls' = Append(Overlap(calls),
                        [e.call EXCEPT !.styleAtReturn =
                                         HasStyle(e.head, STYLE_IDS.DISABLE_DEFAULT),
                                       !.customAtReturn =
                                         HasStyle(e.head, STYLE_IDS.ADD_CUSTOM)])
     /\ UNCHANGED <<ops, geo, ver, hasWindow, hasStartViewTransition>>

\* const isDarkMode = resolvedTheme === 'dark'
isDarkMode(resolvedTheme) == resolvedTheme = "dark"

\* Mutant: toggle with its two targets exchanged.
toggleInverted(arg) ==
  \E r \in ResolvedThemes :
    applyTheme("toggle", isDarkMode(r), IF isDarkMode(r) THEN "dark" ELSE "light", arg)

\* Mutant: toggle chooses its target by the raw theme.
toggleRaw(arg) ==
  \E r \in ResolvedThemes :
    applyTheme("toggle", isDarkMode(r), IF theme = "dark" THEN "light" ELSE "dark", arg)

\* The four actions the hook returns, of a hook rendered with `arg`.
toggle(arg) ==
  \E r \in ResolvedThemes :
    applyTheme("toggle", isDarkMode(r), IF isDarkMode(r) THEN "light" ELSE "dark", arg)

enable(arg) == applyTheme("enable", FALSE, "dark", arg)

disable(arg) == applyTheme("disable", FALSE, "light", arg)

system(arg) == applyTheme("system", FALSE, "system", arg)

----------------------------------------------------------------------------
(* The platform: document.startViewTransition(callback).                    *)

\* flushSync(() => setTheme(newTheme)), the capture callback of call c.
CaptureCallback(c) ==
  [theme |-> c.newTheme,
   call |-> [c EXCEPT !.wrote = Append(@, c.newTheme), !.cbDone = TRUE,
                      !.steps = Append(@, "setTheme")]]

\* Mutant: the platform runs the capture callbacks in any order.
RunCallbackAnyOrder(i) ==
  /\ calls[i].started /\ ~calls[i].cbDone
  /\ theme' = CaptureCallback(calls[i]).theme
  /\ calls' = [calls EXCEPT ![i] = CaptureCallback(calls[i]).call]
  /\ UNCHANGED <<ops, geo, ver, hasWindow, hasStartViewTransition, head>>

\* The platform runs the capture callbacks in the order of the
\* startViewTransition calls.
RunCallback(i) ==
  /\ calls[i].started /\ ~calls[i].cbDone
  /\ \A j \in 1..(i - 1) : calls[j].started => calls[j].cbDone
  /\ theme' = CaptureCallback(calls[i]).theme
  /\ calls' = [calls EXCEPT ![i] = CaptureCallback(calls[i]).call]
  /\ UNCHANGED <<ops, geo, ver, hasWindow, hasStartViewTransition, head>>

\* `ready` is fulfilled once the snapshots exist, so after the callback.
ReadyFulfilled(i) ==
  /\ calls[i].started /\ calls[i].cbDone /\ calls[i].ready = "pending"
  /\ calls' = [calls EXCEPT ![i].ready = "fulfilled"]
  /\ UNCHANGED <<ops, geo, ver, hasWindow, hasStartViewTransition, theme, head>>

\* `ready` is rejected when the transition is skipped (a later transition
\* started, the page is hidden) or the callback failed.
ReadyRejected(i) ==
  /\ calls[i].started /\ calls[i].ready = "pending"
  /\ calls' = [calls EXCEPT ![i].ready = "rejected"]
  /\ UNCHANGED <<ops, geo, ver, hasWindow, hasStartViewTransition, theme, head>>

FinishedFulfilled(i) ==
  /\ calls[i].started /\ calls[i].cbDone
  /\ calls[i].ready # "pending" /\ calls[i].finished = "pending"
  /\ calls' = [calls EXCEPT ![i].finished = "fulfilled"]
  /\ UNCHANGED <<ops, geo, ver, hasWindow, hasStartViewTransition, theme, head>>

\* `finished` is rejected only when the callback failed, and then `ready`
\* is rejected too.
FinishedRejected(i) ==
  /\ calls[i].started /\ calls[i].cbDone
  /\ calls[i].ready = "rejected" /\ calls[i].finished = "pending"
  /\ calls' = [calls EXCEPT ![i].finished = "rejected"]
  /\ UNCHANGED <<ops, geo, ver, hasWindow, hasStartViewTransition, theme, head>>

----------------------------------------------------------------------------
(* applyTheme after `await viewTransition.ready`.                           *)

PSEUDO_OLD == "::view-transition-old(root)"
PSEUDO_NEW == "::view-transition-new(root)"

\* The pseudoElement of the animate call for config.old: the inline revision
\* names the new snapshot when options is a bare number.
OldPseudo(v, options) == IF v = "inline" /\ options = "number" THEN PSEUDO_NEW ELSE PSEUDO_OLD

NewPseudo(v, options) == PSEUDO_NEW

\* The animate calls the branch makes when `ready` is fulfilled, in order.
AnimateCalls(v, t) ==
  CASE SwitchCase(v, t.type) = "circular-reveal" -> <<PSEUDO_NEW>>
    [] SwitchCase(v, t.type) = "custom" /\ v = "legacy" -> <<PSEUDO_NEW>>
    [] SwitchCase(v, t.type) = "custom" /\ v # "legacy" ->
         (IF t.old # "absent" THEN <<OldPseudo(v, t.old)>> ELSE <<>>)
         \o (IF t.new # "absent" THEN <<NewPseudo(v, t.new)>> ELSE <<>>)
    [] OTHER -> <<>>

\* The try block: the animate calls made when the throwAt-th of them throws
\* (0: none throws); a call that throws ends the block.
TryAnimate(c, t, throwAt) ==
  LET all == AnimateCalls(ver, t)
  IN IF c.ready = "rejected" THEN c
     ELSE [c EXCEPT !.animates = IF throwAt = 0 THEN all ELSE SubSeq(all, 1, throwAt),
                    !.steps = @ \o [k \in 1..(IF throwAt = 0 THEN Len(all) ELSE throwAt) |->
                                      "animate"],
                    !.threw = throwAt # 0]

\* index.ts: try { await ready; animate } catch {}; then await finished.
AfterReadyCaught(c, t, throwAt) == [TryAnimate(c, t, throwAt) EXCEPT !.pc = "awaitFinished"]

\* legacy: await ready; animate; return -- nothing is caught, nothing is
\* cleaned up.
AfterReadyLegacy(c, t, throwAt) ==
  [TryAnimate(c, t, throwAt) EXCEPT
     !.pc = "done",
     !.result = IF c.ready = "rejected" \/ throwAt # 0 THEN "rejected" ELSE "fulfilled",
     !.styleAtReturn = HasStyle(head, STYLE_IDS.DISABLE_DEFAULT),
     !.customAtReturn = HasStyle(head, STYLE_IDS.ADD_CUSTOM)]

AfterReady(c, t, throwAt) ==
  IF ver = "legacy" THEN AfterReadyLegacy(c, t, throwAt) ELSE AfterReadyCaught(c, t, throwAt)

ResumeReady(i, throwAt) ==
  LET t == Transition(ver, calls[i].arg)
  IN /\ calls[i].pc = "awaitReady" /\ calls[i].ready # "pending"
     /\ throwAt \in 0..Len(AnimateCalls(ver, t))
     /\ calls[i].ready = "rejected" => throwAt = 0
     /\ calls' = [calls EXCEPT ![i] = AfterReady(calls[i], t, throwAt)]
     /\ UNCHANGED <<ops, geo, ver, hasWindow, hasStartViewTransition, theme, head>>

----------------------------------------------------------------------------
(* applyTheme after `await viewTransition.finished`: the finally block.     *)

\* Mutant: the finally block leaves the custom style in the document.
CleanupKeepsCustom(h, t) == resetDefaultStyles(h)

\* finally { resetDefaultStyles(); if (config.css) removeDocumentStyles(ADD_CUSTOM) }
\* (the circular reveal has no css).
Cleanup(h, t) ==
  IF SwitchCase(ver, t.type) = "custom" /\ t.css # ""
  THEN removeDocumentStyles(resetDefaultStyles(h), STYLE_IDS.ADD_CUSTOM)
  ELSE resetDefaultStyles(h)

\* The calls of the finally block.
CleanupSteps(t) ==
  IF SwitchCase(ver, t.type) = "custom" /\ t.css # ""
  THEN <<"resetDefaultStyles", "removeDocumentStyles">>
  ELSE <<"resetDefaultStyles">>

\* try/finally catches nothing: a rejected `finished` rejects the call.
AfterFinished(c, h2) ==
  [c EXCEPT !.pc = "done",
            !.steps = @ \o CleanupSteps(Transition(ver, c.arg)),
            !.result = IF c.finished = "fulfilled" THEN "fulfilled" ELSE "rejected",
            !.removed = @ + Removed(head, h2),
            !.styleAtReturn = HasStyle(h2, STYLE_IDS.DISABLE_DEFAULT),
            !.customAtReturn = HasStyle(h2, STYLE_IDS.ADD_CUSTOM)]

ResumeFinished(i) ==
  LET t == Transition(ver, calls[i].arg)
  IN /\ calls[i].pc = "awaitFinished" /\ calls[i].finished # "pending"
     /\ head' = Cleanup(head, t)
     /\ calls' = [calls EXCEPT ![i] = AfterFinished(calls[i], Cleanup(head, t))]
     /\ UNCHANGED <<ops, geo, ver, hasWindow, hasStartViewTransition, theme>>

----------------------------------------------------------------------------
Next ==
  \/ \E arg \in Args : toggle(arg)
  \/ \E arg \in Args : enable(arg)
  \/ \E arg \in Args : disable(arg)
  \/ \E arg \in Args : system(arg)
  \/ \E i \in 1..Len(calls) : RunCallback(i)
  \/ \E i \in 1..Len(calls) : ReadyFulfilled(i)
  \/ \E i \in 1..Len(calls) : ReadyRejected(i)
  \/ \E i \in 1..Len(calls) : FinishedFulfilled(i)
  \/ \E i \in 1..Len(calls) : FinishedRejected(i)
  \/ \E i \in 1..Len(calls), throwAt \in 0..2 : ResumeReady(i, throwAt)
  \/ \E i \in 1..Len(calls) : ResumeFinished(i)

Spec == Init /\ [][Next]_vars

----------------------------------------------------------------------------
(* The circular reveal's animate call on a page whose viewport, mounted     *)
(* element and configuration change.  The record of the call is kept only   *)
(* while the page it read is unchanged.                                     *)

\* The arguments of document.documentElement.animate in the circular reveal.
CircularRevealAnimation(v, g) ==
  LET center == getCircularRevealCenter(g.center, g.current, g.innerWidth, g.innerHeight)
  IN [center |-> center,
      maxRadiusSq |-> maxRadiusSq(center, g.innerWidth, g.innerHeight),
      duration |-> Duration(v, g.duration),
      easing |-> Easing(v, g.easing),
      pseudoElement |-> PSEUDO_NEW]

\* The user resizes the window.
Resize(w, h) ==
  /\ <<w, h>> # <<geo.innerWidth, geo.innerHeight>>
  /\ geo' = [geo EXCEPT !.innerWidth = w, !.innerHeight = h, !.out = <<>>]
  /\ UNCHANGED <<ver, hasWindow, hasStartViewTransition, theme, head, calls, ops>>

\* React mounts, moves or unmounts the element of the ref: ref.current.
Layout(current) ==
  /\ current # geo.current
  /\ geo' = [geo EXCEPT !.current = current, !.out = <<>>]
  /\ UNCHANGED <<ver, hasWindow, hasStartViewTransition, theme, head, calls, ops>>

\* The hook is rendered with another centre, duration and easing.
Render(center, duration, easing) ==
  /\ <<center, duration, easing>> # <<geo.center, geo.duration, geo.easing>>
  /\ geo' = [geo EXCEPT !.center = center, !.duration = duration, !.easing = easing,
                        !.out = <<>>]
  /\ UNCHANGED <<ver, hasWindow, hasStartViewTransition, theme, head, calls, ops>>

\* A circular reveal reads the page and animates; it assigns nothing.
CircularReveal ==
  /\ geo' = [geo EXCEPT !.out = <<CircularRevealAnimation(ver, geo)>>]
  /\ UNCHANGED <<ver, hasWindow, hasStartViewTransition, theme, head, calls, ops>>

GeomInit ==
  /\ ver \in Versions
  /\ hasWindow = TRUE /\ hasStartViewTransition = TRUE
  /\ theme = "light"
  /\ head = <<>>
  /\ calls = <<>>
  /\ ops = <<>>
  /\ geo = GeoInit

GeomNext ==
  \/ \E w \in Widths, h \in Heights : Resize(w, h)
  \/ \E current \in Optional(Rects) : Layout(current)
  \/ \E center \in Centers, duration \in Durations, easing \in Easings :
       Render(center, duration, easing)
  \/ CircularReveal

GeomSpec == GeomInit /\ [][GeomNext]_vars

----------------------------------------------------------------------------
(* The style utilities called one after the other on one document, by any  *)
(* code of the page and by the document steps of the custom transition.    *)

\* The ids of style elements: the two of STYLE_IDS and one of the page.
StyleIds == {STYLE_IDS.DISABLE_DEFAULT, STYLE_IDS.ADD_CUSTOM, "page-styles"}

StyleTexts == {"css1", "css2"}

\* A custom transition with the css.
CustomWith(css) == [type |-> "custom", css |-> css, old |-> "absent", new |-> "absent"]

Logged(op, id, text) == Append(ops, [op |-> op, id |-> id, text |-> text, before |-> head])

\* addDocumentStyles(id, textContent)
AddStyles(id, textContent) ==
  /\ Len(ops) < MaxOps
  /\ head' = addDocumentStyles(head, id, textContent)
  /\ ops' = Logged("add", id, textContent)
  /\ UNCHANGED <<ver, hasWindow, hasStartViewTransition, theme, calls, geo>>

\* removeDocumentStyles(id)
RemoveStyles(id) ==
  /\ Len(ops) < MaxOps
  /\ head' = removeDocumentStyles(head, id)
  /\ ops' = Logged("remove", id, "")
  /\ UNCHANGED <<ver, hasWindow, hasStartViewTransition, theme, calls, geo>>

\* A custom call with the css, up to its first await.
InjectCustom(css) ==
  /\ Len(ops) < MaxOps
  /\ head' = CustomStart(NewCall("enable", FALSE, "dark", CustomWith(css)), CustomWith(css)).head
  /\ ops' = Logged("custom", STYLE_IDS.ADD_CUSTOM, css)
  /\ UNCHANGED <<ver, hasWindow, hasStartViewTransition, theme, calls, geo>>

\* The finally block of a custom call with the css.
CleanupCustom(css) ==
  /\ Len(ops) < MaxOps
  /\ head' = Cleanup(head, CustomWith(css))
  /\ ops' = Logged("cleanup", STYLE_IDS.ADD_CUSTOM, css)
  /\ UNCHANGED <<ver, hasWindow, hasStartViewTransition, theme, calls, geo>>

StyleInit ==
  /\ ver \in {"handlers", "inline"}
  /\ hasWindow = TRUE /\ hasStartViewTransition = TRUE
  /\ theme = "light"
  /\ head = <<>>
  /\ calls = <<>>
  /\ ops = <<>>
  /\ geo = GeoInit

StyleNext ==
  \/ \E id \in StyleIds, textContent \in StyleTexts : AddStyles(id, textContent)
  \/ \E id \in StyleIds : RemoveStyles(id)
  \/ \E css \in StyleTexts : InjectCustom(css)
  \/ \E css \in StyleTexts : CleanupCustom(css)

StyleSpec == StyleInit /\ [][StyleNext]_vars

----------------------------------------------------------------------------
(* Properties.                                                              *)

Capable == hasWindow /\ hasStartViewTransition

\* The case of the switch the hook's configuration selects.
Case(c) == SwitchCase(ver, Transition(ver, c.arg).type)

\* The call runs the fallback or one of the four cases of the switch.
Dispatched(c) == ~Capable \/ Case(c) # "unmatched"

Range(s) == {s[k] : k \in 1..Len(s)}

\* C1: a call applyTheme(T) made while the store's raw theme is T writes
\* nothing to the store, creates and removes no style element, starts no
\* platform transition and animates nothing, whatever the transition kind
\* and the capability.
C1_NoOpGuard ==
  \A i \in 1..Len(calls) :
    calls[i].same =>
      /\ calls[i].wrote = <<>>
      /\ calls[i].created = 0 /\ calls[i].removed = 0
      /\ ~calls[i].started /\ calls[i].animates = <<>>
      /\ calls[i].pc = "done"

\* A no-op call of the fade kind, made with the capability present while
\* style A of an earlier call is in the document (a fade that ran would
\* have removed it).
C1_Witness ==
  \E i \in 1..Len(calls) :
    /\ calls[i].same /\ Capable /\ Case(calls[i]) = "fade"
    /\ HasStyle(head, STYLE_IDS.DISABLE_DEFAULT)

\* C2: a call that passes the no-op guard and runs the fallback or one of
\* the four kinds writes the store exactly once, with newTheme: never twice,
\* never another value, and not zero times once it has returned (fallback,
\* none) or the platform has run its capture callback (the other kinds).
C2_ExactlyOneWrite ==
  \A i \in 1..Len(calls) :
    (~calls[i].same /\ Dispatched(calls[i])) =>
      /\ Len(calls[i].wrote) <= 1
      /\ \A k \in 1..Len(calls[i].wrote) : calls[i].wrote[k] = calls[i].newTheme
      /\ (calls[i].started /\ calls[i].cbDone) => Len(calls[i].wrote) = 1
      /\ ~calls[i].started => Len(calls[i].wrote) = 1

\* Two overlapping calls of the animated kinds, both callbacks run, one
\* write each, and the first call's `ready` rejected.
C2_Witness ==
  /\ Len(calls) = 2
  /\ Case(calls[1]) = "custom" /\ Case(calls[2]) = "fade"
  /\ calls[1].cbDone /\ calls[2].cbDone
  /\ calls[1].ready = "rejected"
  /\ calls[1].wrote = <<calls[1].newTheme>> /\ calls[2].wrote = <<calls[2].newTheme>>

\* C3: without a page or without the capability, a call that passes the
\* guard writes the store before it yields and does nothing else: no
\* transition, no animate, no style element created or removed.
C3_FallbackDirectWrite ==
  \A i \in 1..Len(calls) :
    (~Capable /\ ~calls[i].same) =>
      /\ calls[i].wrote = <<calls[i].newTheme>>
      /\ calls[i].pc = "done" /\ calls[i].result = "fulfilled"
      /\ ~calls[i].started /\ calls[i].animates = <<>>
      /\ calls[i].created = 0 /\ calls[i].removed = 0
      /\ head = <<>>

\* Calls of the custom kind with css and of the circular reveal, on a page
\* whose document has no startViewTransition.
C3_Witness ==
  /\ hasWindow /\ ~hasStartViewTransition
  /\ Len(calls) = 2
  /\ ~calls[1].same /\ calls[1].arg.type = "custom" /\ calls[1].arg.css # ""
  /\ ~calls[2].same /\ calls[2].arg.type = "circular-reveal"

\* C4: with the capability, a call of kind 'none' that passes the guard
\* writes the store before it yields, starts no transition and creates or
\* removes no style element.
C4_NoneDirectWrite ==
  \A i \in 1..Len(calls) :
    (Capable /\ ~calls[i].same /\ Case(calls[i]) = "none") =>
      /\ calls[i].wrote = <<calls[i].newTheme>>
      /\ calls[i].pc = "done" /\ calls[i].result = "fulfilled"
      /\ ~calls[i].started /\ calls[i].animates = <<>>
      /\ calls[i].created = 0 /\ calls[i].removed = 0

\* A 'none' call made while an earlier call, still awaiting `finished`, has
\* style A in the document: style A is still there.
C4_Witness ==
  /\ Capable /\ Len(calls) = 2
  /\ calls[1].pc = "awaitFinished"
  /\ ~calls[2].same /\ Case(calls[2]) = "none"
  /\ HasStyle(head, STYLE_IDS.DISABLE_DEFAULT)

\* C5 (as claimed): when a circular-reveal or custom call that started a
\* transition completes, style A is not in the document.
C5_StyleAbsentAtCompletion ==
  \A i \in 1..Len(calls) :
    (calls[i].started /\ Case(calls[i]) \in {"circular-reveal", "custom"}
       /\ calls[i].pc = "done") => ~calls[i].styleAtReturn

\* C6 (as claimed): a circular-reveal or custom call is never rejected,
\* whether `ready` or `finished` is rejected or an animate call throws.
C6_AnimationFailuresNeverEscape ==
  \A i \in 1..Len(calls) :
    (calls[i].started /\ Case(calls[i]) \in {"circular-reveal", "custom"}) =>
      calls[i].result # "rejected"

\* C7 (as claimed): a call made alone with the capability present, once it
\* and its transition have settled, leaves the store and the document's
\* style elements as the fallback (a direct write on the document it
\* started from) leaves them.
C7_FallbackEquivalent ==
  \A i \in 1..Len(calls) :
    (i = Len(calls) /\ Capable /\ ~calls[i].same /\ Case(calls[i]) # "unmatched"
       /\ calls[i].alone /\ Settled(calls[i])) =>
      /\ theme = DirectWrite(calls[i]).theme
      /\ Range(head) = Range(calls[i].head0)

\* The form in which a revision takes the transition: index.ts the
\* transition itself, the legacy revision an object holding it.
OwnForm == IF ver = "legacy" THEN "nested" ELSE "direct"

\* C8 (as claimed): with the capability, a call that passes the guard and
\* whose hook was given the tag 'fade', the tag 'default' or no argument
\* starts a platform transition, whose callback writes newTheme.
C8_FadeAndDefaultSame ==
  \A i \in 1..Len(calls) :
    (Capable /\ ~calls[i].same
       /\ \/ calls[i].arg.form = "absent"
          \/ calls[i].arg.form = OwnForm /\ calls[i].arg.type \in {"fade", "default"}) =>
      /\ calls[i].started
      /\ calls[i].cbDone => calls[i].wrote = <<calls[i].newTheme>>

\* The same transition in the other calling convention.
OtherForm(arg) == [arg EXCEPT !.form = IF @ = "direct" THEN "nested" ELSE "direct"]

\* C9 (as claimed): a call that reaches the switch runs the case, with the
\* configuration, that it would run had its hook been given the same
\* transition in the other convention ({transition: T} for T, T for
\* {transition: T}).
C9_BothConventionsEquivalent ==
  \A i \in 1..Len(calls) :
    (Capable /\ ~calls[i].same /\ calls[i].arg.form # "absent") =>
      Transition(ver, calls[i].arg) = Transition(ver, OtherForm(calls[i].arg))

\* C10: enable targets 'dark', disable 'light', system 'system', toggle
\* 'light' if it read a dark resolved theme and 'dark' otherwise; and when the
\* last call was made alone and ran the fallback or a case of the switch,
\* the store holds its target once the call and its transition have settled.
C10_ActionTargets ==
  \A i \in 1..Len(calls) :
    /\ calls[i].via = "enable" => calls[i].newTheme = "dark"
    /\ calls[i].via = "disable" => calls[i].newTheme = "light"
    /\ calls[i].via = "system" => calls[i].newTheme = "system"
    /\ calls[i].via = "toggle" =>
         calls[i].newTheme = IF calls[i].isDarkMode THEN "light" ELSE "dark"
    /\ (i = Len(calls) /\ calls[i].alone /\ Settled(calls[i]) /\ Dispatched(calls[i])) =>
         theme = calls[i].newTheme

\* A toggle made alone after a settled call, from a dark resolved theme,
\* through a circular reveal that has finished: the store holds 'light'.
C10_Witness ==
  /\ Len(calls) = 2 /\ Capable
  /\ calls[2].via = "toggle" /\ calls[2].isDarkMode /\ ~calls[2].same
  /\ Case(calls[2]) = "circular-reveal"
  /\ calls[2].alone /\ Settled(calls[2])
  /\ theme = "light"

\* What the page and the configuration of geo were when its animate call
\* was made: they are what they are now.
Animated == geo.out # <<>>

\* C11: the resolver gives the centre of the bounding box of the element the
\* ref points at when there is one (left + width/2, top + height/2);
\* otherwise (x, y) when the centre carries x and y, whatever the viewport;
\* otherwise the centre of the viewport (innerWidth/2, innerHeight/2).  The
\* step that resolves changes nothing of the page or the configuration.
C11_ResolvedCenter ==
  [][(geo'.out # <<>> /\ geo' # geo) =>
       /\ [geo' EXCEPT !.out = <<>>] = [geo EXCEPT !.out = <<>>]
       /\ LET c == geo'.out[1].center
              hasRef == geo.center.kind \in {"ref", "both"}
              hasXY == geo.center.kind \in {"xy", "both"}
          IN /\ (hasRef /\ geo.current # <<>>) =>
                  /\ c.x = 2 * geo.current[1].left + geo.current[1].width
                  /\ c.y = 2 * geo.current[1].top + geo.current[1].height
             /\ (~(hasRef /\ geo.current # <<>>) /\ hasXY) =>
                  c.x = 2 * geo.center.x /\ c.y = 2 * geo.center.y
             /\ (~(hasRef /\ geo.current # <<>>) /\ ~hasXY) =>
                  c.x = geo.innerWidth /\ c.y = geo.innerHeight]_vars

\* A centre that has a ref and coordinates, resolved with an element of odd
\* width mounted away from the coordinates.
C11_Witness ==
  /\ Animated /\ geo.center.kind = "both"
  /\ geo.current # <<>> /\ geo.current[1].width = 25
  /\ geo.out[1].center.x # 2 * geo.center.x

\* C12: the square of the end radius is max(cx, W - cx)^2 + max(cy, H - cy)^2
\* (a million for the centre (0,0) in 800 x 600), and it is at least the
\* square of the distance from the centre to each corner of the viewport.
C12_MaxRadius ==
  Animated =>
    LET c == geo.out[1].center
        W == 2 * geo.innerWidth
        H == 2 * geo.innerHeight
        rr == geo.out[1].maxRadiusSq
        dx == IF c.x >= W - c.x THEN c.x ELSE W - c.x
        dy == IF c.y >= H - c.y THEN c.y ELSE H - c.y
    IN /\ rr = dx * dx + dy * dy
       /\ (c.x = 0 /\ c.y = 0 /\ geo.innerWidth = 800 /\ geo.innerHeight = 600) =>
            rr = 4 * (1000 * 1000)
       /\ \A X \in {0, W}, Y \in {0, H} :
            rr >= (c.x - X) * (c.x - X) + (c.y - Y) * (c.y - Y)

\* The reveal from the element's centre inside an 800 x 600 viewport, nearer
\* to the top left corner than to the others.
C12_Witness ==
  /\ Animated /\ geo.innerWidth = 800 /\ geo.innerHeight = 600
  /\ geo.out[1].center = [x |-> 225, y |-> 110]
  /\ geo.out[1].maxRadiusSq = 1375 * 1375 + 1090 * 1090

\* C13 (as claimed): the animate call has the configured duration when one
\* is configured, 0 included, and 500 otherwise; the configured easing when
\* one is configured, '' included, and 'ease-in-out' otherwise.
C13_ConfiguredTiming ==
  Animated =>
    /\ geo.out[1].duration = IF geo.duration # <<>> THEN geo.duration[1] ELSE 500
    /\ geo.out[1].easing = IF geo.easing # <<>> THEN geo.easing[1] ELSE "ease-in-out"
    /\ geo.out[1].pseudoElement = PSEUDO_NEW

\* s is an initial part of t.
IsPrefix(s, t) == Len(s) <= Len(t) /\ s = SubSeq(t, 1, Len(s))

\* A call that passes the guard with the capability and runs the case k.
Runs(c, k) == Capable /\ ~c.same /\ Case(c) = k

\* C14: a circular-reveal call injects style A, then starts the transition;
\* the store is written in the capture callback, after the start and before
\* `ready` is fulfilled; animate is called only after `ready` is fulfilled;
\* style A is removed only after `finished` has settled.
C14_CircularRevealOrder ==
  \A i \in 1..Len(calls) :
    Runs(calls[i], "circular-reveal") =>
      LET c == calls[i]
          A == STYLE_IDS.DISABLE_DEFAULT
      IN /\ c.started /\ Len(c.steps) >= 2
         /\ \/ IsPrefix(c.steps, <<"disableDefaultStyles", "startViewTransition", "setTheme",
                                   "animate", "resetDefaultStyles">>)
            \/ IsPrefix(c.steps, <<"disableDefaultStyles", "startViewTransition", "setTheme",
                                   "resetDefaultStyles">>)
         /\ (c.alone /\ ~HasStyle(c.head0, A)) => c.created = 1
         /\ c.cbDone <=> Len(c.steps) >= 3
         /\ c.ready = "fulfilled" => c.wrote = <<c.newTheme>>
         /\ c.animates # <<>> => c.ready = "fulfilled"
         /\ c.steps[Len(c.steps)] = "resetDefaultStyles" => c.finished # "pending"

\* A circular reveal that went through all five steps.
C14_Witness ==
  \E i \in 1..Len(calls) :
    /\ Runs(calls[i], "circular-reveal") /\ calls[i].pc = "done"
    /\ calls[i].steps = <<"disableDefaultStyles", "startViewTransition", "setTheme",
                          "animate", "resetDefaultStyles">>
    /\ calls[i].created = 1 /\ calls[i].removed = 1

\* C15 (as claimed): style A is in the document from the step in which a
\* circular-reveal or custom call injects it until that call's `finished`
\* has settled, whatever other calls start or complete in between.
C15_StylePresentUntilFinished ==
  \A i \in 1..Len(calls) :
    (\/ Runs(calls[i], "circular-reveal")
     \/ Runs(calls[i], "custom")) =>
      (calls[i].finished = "pending" => HasStyle(head, STYLE_IDS.DISABLE_DEFAULT))

\* C16 (as claimed): of two calls with the same target issued one after the
\* other, the first passing the guard, the second writes nothing, creates
\* and removes no style element and starts no transition, also when it is
\* issued before the capture callback of the first has written the store.
C16_RepeatedCallIdempotent ==
  \A i \in 1..(Len(calls) - 1) :
    (/\ calls[i].newTheme = calls[i + 1].newTheme
     /\ ~calls[i].same /\ Dispatched(calls[i])) =>
      /\ calls[i + 1].wrote = <<>>
      /\ calls[i + 1].created = 0 /\ calls[i + 1].removed = 0
      /\ ~calls[i + 1].started

\* The elements of a sequence of steps that are e.
Count(s, e) == Cardinality({k \in 1..Len(s) : s[k] = e})

\* C17: a custom call injects style B, before it starts the transition, if
\* and only if its configuration has non-empty css; it removes style B in
\* its cleanup if and only if it has; and when a custom call with css has
\* completed, however its animation and its transition ended, style B is
\* not in the document.
C17_CustomStyleLifecycle ==
  \A i \in 1..Len(calls) :
    Runs(calls[i], "custom") =>
      LET c == calls[i]
          css == Transition(ver, c.arg).css
          B == STYLE_IDS.ADD_CUSTOM
      IN /\ css # "" => SubSeq(c.steps, 1, 3) = <<"disableDefaultStyles", "addDocumentStyles",
                                                   "startViewTransition">>
         /\ css = "" => /\ SubSeq(c.steps, 1, 2) = <<"disableDefaultStyles", "startViewTransition">>
                        /\ Count(c.steps, "addDocumentStyles") = 0
                        /\ Count(c.steps, "removeDocumentStyles") = 0
         /\ Count(c.steps, "addDocumentStyles") <= 1
         /\ (c.alone /\ css # "" /\ ~HasStyle(c.head0, B)) =>
              c.created = 1 + (IF HasStyle(c.head0, STYLE_IDS.DISABLE_DEFAULT) THEN 0 ELSE 1)
         /\ c.pc # "done" => Count(c.steps, "removeDocumentStyles") = 0
         /\ (c.pc = "done" /\ css # "") =>
              /\ c.steps[Len(c.steps)] = "removeDocumentStyles"
              /\ Count(c.steps, "removeDocumentStyles") = 1
              /\ ~c.customAtReturn

\* A custom call with css, made alone, whose `ready` and `finished` were
\* rejected: it created both styles, removed both and was rejected.
C17_Witness ==
  \E i \in 1..Len(calls) :
    /\ Runs(calls[i], "custom") /\ Transition(ver, calls[i].arg).css # ""
    /\ calls[i].alone /\ calls[i].pc = "done"
    /\ calls[i].finished = "rejected" /\ calls[i].result = "rejected"
    /\ calls[i].created = 2 /\ calls[i].removed = 2
    /\ ~HasStyle(head, STYLE_IDS.ADD_CUSTOM)

\* C18 (as claimed): once `ready` is fulfilled, a custom call of index.ts
\* whose animate calls do not throw calls animate on the old snapshot if and
\* only if it has an `old` animation, then on the new snapshot if and only
\* if it has a `new` one, whether options is a bag or a bare number.
C18_CustomAnimationTargets ==
  \A i \in 1..Len(calls) :
    (/\ Runs(calls[i], "custom") /\ ver # "legacy"
     /\ calls[i].pc # "awaitReady" /\ calls[i].ready = "fulfilled" /\ ~calls[i].threw) =>
      LET t == Transition(ver, calls[i].arg)
      IN calls[i].animates =
           (IF t.old # "absent" THEN <<PSEUDO_OLD>> ELSE <<>>)
             \o (IF t.new # "absent" THEN <<PSEUDO_NEW>> ELSE <<>>)

\* C19: a fade call that passes the guard with the capability removes style
\* A if it is there and creates no style, starts one transition and returns
\* at once, fulfilled, possibly before its capture callback has written the
\* store; style A is absent when it returns, and it animates nothing.
C19_FadeCallShape ==
  \A i \in 1..Len(calls) :
    Runs(calls[i], "fade") =>
      LET c == calls[i]
      IN /\ c.pc = "done" /\ c.result = "fulfilled"
         /\ IsPrefix(c.steps, <<"resetDefaultStyles", "startViewTransition", "setTheme">>)
         /\ Len(c.steps) >= 2 /\ c.started
         /\ c.cbDone <=> Len(c.steps) = 3
         /\ c.created = 0 /\ c.removed <= 1
         /\ c.alone => c.removed = (IF HasStyle(c.head0, STYLE_IDS.DISABLE_DEFAULT) THEN 1 ELSE 0)
         /\ c.animates = <<>>
         /\ ~c.styleAtReturn

\* A fade call that has returned, having removed the style A of a circular
\* reveal still in flight, and whose capture callback has not run yet.
C19_Witness ==
  /\ Len(calls) = 2
  /\ Runs(calls[1], "circular-reveal") /\ calls[1].pc = "awaitFinished"
  /\ Runs(calls[2], "fade") /\ calls[2].pc = "done"
  /\ calls[2].removed = 1 /\ ~calls[2].cbDone /\ calls[2].wrote = <<>>
  /\ theme # calls[2].newTheme

\* C20 (as claimed): a call that stops at the guard, runs the fallback, the
\* none case or the fade case has returned as soon as it is made; a
\* circular-reveal or custom call has returned only if the platform has
\* settled both `ready` and `finished` of its transition.
C20_ReturnsOnlyWhenSettled ==
  \A i \in 1..Len(calls) :
    /\ (calls[i].same \/ ~Capable \/ Case(calls[i]) \in {"none", "fade"}) =>
         calls[i].pc = "done"
    /\ ((Runs(calls[i], "circular-reveal") \/ Runs(calls[i], "custom"))
          /\ calls[i].pc = "done") =>
         calls[i].ready # "pending" /\ calls[i].finished # "pending"

\* The elements of the document that have the id.
WithId(h, id) == {k \in 1..Len(h) : h[k].id = id}

\* C21: whatever calls were made and however they interleave, the document
\* has at most one element with id A and at most one with id B; a second
\* injection under an id leaves exactly one element with it.
C21_StyleUniqueness ==
  /\ Cardinality(WithId(head, STYLE_IDS.DISABLE_DEFAULT)) <= 1
  /\ Cardinality(WithId(head, STYLE_IDS.ADD_CUSTOM)) <= 1
  /\ \A i \in 1..Len(calls) :
       (Count(calls[i].steps, "disableDefaultStyles") = 1 /\ calls[i].pc = "awaitReady"
          /\ \A j \in 1..Len(calls) : Count(calls[j].steps, "resetDefaultStyles") = 0) =>
         Cardinality(WithId(head, STYLE_IDS.DISABLE_DEFAULT)) = 1

\* Two custom calls with css in flight at once: the second injected styles
\* A and B while those of the first were in the document, and created none.
C21_Witness ==
  /\ Len(calls) = 2
  /\ Runs(calls[1], "custom") /\ Runs(calls[2], "custom")
  /\ Count(calls[1].steps, "addDocumentStyles") = 1
  /\ Count(calls[2].steps, "addDocumentStyles") = 1
  /\ calls[1].pc = "awaitReady" /\ calls[2].pc = "awaitReady"
  /\ calls[1].created = 2 /\ calls[2].created = 0
  /\ Len(head) = 2

\* The document the k-th direct call left.
After(k) == IF k < Len(ops) THEN ops[k + 1].before ELSE head

\* The elements of the document with another id, in document order.
Others(h, id) == SelectSeq(h, LAMBDA e : e.id # id)

\* The text of the element with the id.
TextOf(h, id) == h[getElementById(h, id)].text

\* C22: addDocumentStyles(id, text) on a document that has an element with
\* the id leaves the document as it is, text of the element included,
\* whether the text is the same or another; so a custom call made while the
\* style B of an earlier custom call is in the document leaves that call's
\* css in style B.
C22_NoReplace ==
  \A k \in 1..Len(ops) :
    /\ (ops[k].op = "add" /\ HasStyle(ops[k].before, ops[k].id)) =>
         After(k) = ops[k].before
    /\ (ops[k].op = "add" /\ ~HasStyle(ops[k].before, ops[k].id)) =>
         After(k) = Append(ops[k].before, [id |-> ops[k].id, text |-> ops[k].text])
    /\ (ops[k].op = "custom" /\ HasStyle(ops[k].before, STYLE_IDS.ADD_CUSTOM)) =>
         /\ TextOf(After(k), STYLE_IDS.ADD_CUSTOM) = TextOf(ops[k].before, STYLE_IDS.ADD_CUSTOM)
         /\ Others(After(k), STYLE_IDS.DISABLE_DEFAULT)
              = Others(ops[k].before, STYLE_IDS.DISABLE_DEFAULT)

\* A custom call with css2 made after a custom call with css1 and before any
\* cleanup: style B holds css1.
C22_Witness ==
  /\ Len(ops) = 2
  /\ ops[1].op = "custom" /\ ops[1].text = "css1" /\ ops[1].before = <<>>
  /\ ops[2].op = "custom" /\ ops[2].text = "css2"
  /\ TextOf(head, STYLE_IDS.ADD_CUSTOM) = "css1"
  /\ Len(head) = 2

\* C23 (as claimed): a circular-reveal or custom call whose `ready` the
\* platform rejects makes no animate call; its capture callback writes the
\* store all the same; and it returns only after `finished` has settled,
\* having removed style A, and style B if it has css.
C23_ReadyRejected ==
  \A i \in 1..Len(calls) :
    ((Runs(calls[i], "circular-reveal") \/ Runs(calls[i], "custom"))
       /\ calls[i].ready = "rejected") =>
      LET c == calls[i]
      IN /\ c.animates = <<>> /\ Count(c.steps, "animate") = 0
         /\ c.cbDone => c.wrote = <<c.newTheme>>
         /\ c.pc = "done" =>
              /\ c.finished # "pending"
              /\ IsPrefix(CleanupSteps(Transition(ver, c.arg)),
                          SubSeq(c.steps, Len(c.steps) - Len(CleanupSteps(Transition(ver, c.arg))) + 1,
                                 Len(c.steps)))
              /\ ~c.styleAtReturn
              /\ Transition(ver, c.arg).css # "" => ~c.customAtReturn

\* C24 (as claimed): whenever every circular-reveal or custom call made so
\* far has returned and its transition has finished, whatever calls
\* overlapped, neither style A nor style B is in the document.
C24_QuiescentClean ==
  (\A i \in 1..Len(calls) :
     (Runs(calls[i], "circular-reveal") \/ Runs(calls[i], "custom")) => Settled(calls[i])) =>
    /\ ~HasStyle(head, STYLE_IDS.DISABLE_DEFAULT)
    /\ ~HasStyle(head, STYLE_IDS.ADD_CUSTOM)

\* The calls that passed the no-op guard.
Passed == {i \in 1..Len(calls) : ~calls[i].same}

\* C25: when the calls were all made through one hook configuration with
\* the capability present, and all have settled, the store holds the target
\* of the last call that passed the no-op guard.
C25_FinalTheme ==
  (/\ Capable /\ Quiet /\ Passed # {}
   /\ \A i \in 1..Len(calls) : calls[i].arg = calls[1].arg /\ Dispatched(calls[i])) =>
    theme = calls[CHOOSE i \in Passed : \A j \in Passed : j <= i].newTheme

\* Two overlapping circular reveals with different targets, both settled:
\* the store holds the second target.
C25_Witness ==
  /\ Capable /\ Quiet /\ Len(calls) = 2
  /\ calls[1].arg = calls[2].arg /\ Runs(calls[1], "circular-reveal")
  /\ ~calls[1].same /\ ~calls[2].same /\ ~calls[1].alone
  /\ calls[1].newTheme # calls[2].newTheme
  /\ theme = calls[2].newTheme

\* C26: the target of a toggle differs from the raw theme it was called
\* with, so the no-op guard never stops it and, once it has settled, it has
\* written the store; of two toggles, the second made after the first has
\* settled, the second restores the resolved theme the first one read, as
\* a raw theme of 'dark' or 'light', never 'system'.
C26_ToggleNeverSwallowed ==
  \A i \in 1..Len(calls) :
    calls[i].via = "toggle" =>
      /\ ~calls[i].same
      /\ calls[i].newTheme \in {"dark", "light"}
      /\ (Dispatched(calls[i]) /\ Settled(calls[i])) => calls[i].wrote = <<calls[i].newTheme>>
      /\ (/\ i > 1 /\ i = Len(calls) /\ calls[i - 1].via = "toggle"
          /\ calls[i - 1].alone /\ calls[i].alone
          /\ Dispatched(calls[i - 1]) /\ Dispatched(calls[i]) /\ Settled(calls[i])) =>
           /\ theme = (IF calls[i - 1].isDarkMode THEN "dark" ELSE "light")
           /\ calls[i].isDarkMode # calls[i - 1].isDarkMode
           /\ theme # "system"

\* Two toggles through a custom transition, each settled before the next,
\* the first from a dark resolved theme: the store holds 'dark' again.
C26_Witness ==
  /\ Len(calls) = 2 /\ Capable
  /\ calls[1].via = "toggle" /\ calls[2].via = "toggle"
  /\ Case(calls[1]) = "custom" /\ Case(calls[2]) = "custom"
  /\ calls[1].alone /\ calls[2].alone /\ Settled(calls[2])
  /\ calls[1].isDarkMode /\ theme = "dark"
  /\ calls[1].wrote = <<"light">> /\ calls[2].wrote = <<"dark">>

\* C27: removeDocumentStyles(id) removes the element with the id when there
\* is one and otherwise changes nothing; the elements with other ids stay
\* as they are; a second removal changes nothing; and a removal after an
\* injection under an id the document did not have gives back the document
\* as it was.
C27_RemoveSemantics ==
  \A k \in 1..Len(ops) :
    ops[k].op = "remove" =>
      LET id == ops[k].id
          before == ops[k].before
      IN /\ ~HasStyle(After(k), id)
         /\ Others(After(k), id) = Others(before, id)
         /\ HasStyle(before, id) => Len(After(k)) = Len(before) - 1
         /\ ~HasStyle(before, id) => After(k) = before
         /\ (k > 1 /\ ops[k - 1].op = "remove" /\ ops[k - 1].id = id) => After(k) = before
         /\ (k > 1 /\ ops[k - 1].op = "add" /\ ops[k - 1].id = id
               /\ ~HasStyle(ops[k - 1].before, id)) => After(k) = ops[k - 1].before

\* On a document that has a style of the page: style A injected, then
\* removed; the document is as it was.
C27_Witness ==
  /\ Len(ops) = 3
  /\ ops[1].op = "add" /\ ops[1].id = "page-styles"
  /\ ops[2].op = "add" /\ ops[2].id = STYLE_IDS.DISABLE_DEFAULT
  /\ ops[3].op = "remove" /\ ops[3].id = STYLE_IDS.DISABLE_DEFAULT
  /\ Len(ops[3].before) = 2
  /\ head = ops[2].before /\ Len(head) = 1

====
